---- MODULE Spec2Model ----
(***************************************************************************)
(* State-machine model of the sim-lab session orchestrator:                *)
(*   src/App.tsx                 the App component (session state, log,    *)
(*                               request handlers, simulation scheduler)   *)
(*   src/services/geminiService.ts   the inference-oracle client           *)
(* One action per event handler / promise continuation / timer callback.   *)
(* React state updates made by one handler run are applied together        *)
(* (batched) at the end of that run, in call order.                        *)
(***************************************************************************)
EXTENDS Integers, Sequences, FiniteSets, Bags, TLC

(***************************************************************************)
(* Bounds of the model                                                     *)
(***************************************************************************)
MaxLog == 5          \* no handler runs that would make the log longer ...
MaxRunLog == 13      \* ... than this in a session that only runs the scheduler
MaxFollowLog == 9    \* ... or this in a session with a follow-up event or a double start
MaxResetLog == 10    \* ... or this in a session stopped, reset or torn down during a run
MaxPanelLog == 8     \* ... or this in a session with an analysis and a built command
MaxCalls == 2        \* handler invocations awaiting the oracle at once
MaxTimeouts == 1     \* one-shot follow-up timers armed at once
MaxTimers == 2       \* setInterval handles handed out in a session
MaxTime == 32000     \* the clock is not advanced beyond this

(***************************************************************************)
(* Program constants                                                       *)
(***************************************************************************)
FollowUpDelay == 2500
\* Mutant: the scripted run paced like the follow-up event.
IntervalPeriod_Short == FollowUpDelay
IntervalPeriod == 8000
PduPrefixLen == 10

autoCommands ==
  <<"Get Location", "Exfiltrate IMEI", "Request Subscriber ID", "Query Cell ID">>

SilentPdu == "079144775810065011000A81100000000040"

\* Texts an operator may have in an input buffer.
InputTexts == {"", "   ", SilentPdu}

(***************************************************************************)
(* JavaScript values                                                       *)
(***************************************************************************)
JNull == [t |-> "null"]

IsObj(v) == v.t = "obj"

\* Property read o.k: a TypeError on null, undefined if the key is absent.
Has(v, k) == IsObj(v) /\ k \in v.keys

Min(a, b) == IF a <= b THEN a ELSE b

IsSpace(c) == c \in {" ", "\n", "\t"}

RECURSIVE TrimStart(_)
TrimStart(s) ==
  IF Len(s) > 0 /\ IsSpace(SubSeq(s, 1, 1))
  THEN TrimStart(SubSeq(s, 2, Len(s)))
  ELSE s

RECURSIVE TrimEnd(_)
TrimEnd(s) ==
  IF Len(s) > 0 /\ IsSpace(SubSeq(s, Len(s), Len(s)))
  THEN TrimEnd(SubSeq(s, 1, Len(s) - 1))
  ELSE s

\* Mutant: trim() dropped from the guards.
Trim_Identity(s) == s

\* String.prototype.trim
Trim(s) == TrimEnd(TrimStart(s))

\* String.prototype.substring(0, n)
Substring0(s, n) == SubSeq(s, 1, Min(n, Len(s)))

(***************************************************************************)
(* Oracle responses.  A response is a transport failure (generateContent   *)
(* rejects), a reply without text (response.text is undefined) or a reply  *)
(* with a text.                                                            *)
(***************************************************************************)
RespError == [kind |-> "error", text |-> ""]
RespNoText == [kind |-> "notext", text |-> ""]
RespText(s) == [kind |-> "text", text |-> s]

TxtProse == "I cannot help with that."
TxtNull == " null\n"
TxtEmptyObj == "{}"
TxtTruncated == "{\"components\":["
TxtDecode0 == "{\"components\":[]}"
TxtDecode2 == "{\"components\":[{\"name\":\"PID\"},{\"name\":\"DCS\"}]}"
TxtVulnLow ==
  "{\"isSilent\":false,\"explanation\":\"e\",\"riskLevel\":\"Low\",\"mitigation\":\"m\"}"
TxtVulnStk ==
  "{\"isSilent\":true,\"isStkCommand\":true,\"explanation\":\"e\",\"riskLevel\":\"Critical\",\"mitigation\":\"m\"}"
TxtVulnStkApp ==
  "{\"isSilent\":true,\"isStkCommand\":true,\"targetApp\":\"WIB\",\"explanation\":\"e\",\"riskLevel\":\"High\",\"mitigation\":\"m\"}"

\* The JSON values the texts above denote.
VulnObj(keys, silent, stk, app, risk) ==
  [t |-> "obj", keys |-> keys, isSilent |-> silent, isStkCommand |-> stk,
   targetApp |-> app,
   explanation |-> IF "explanation" \in keys THEN "e" ELSE "",
   riskLevel |-> risk,
   mitigation |-> IF "mitigation" \in keys THEN "m" ELSE ""]

DecodeObj(keys, comps) == [t |-> "obj", keys |-> keys, components |-> comps]

\* The keys the response schema of analyzePduVulnerability requires.
VulnRequired == {"isSilent", "explanation", "riskLevel", "mitigation"}

\* JSON.parse(text) read as an analysis object: [ok, val]; ok = FALSE is a
\* SyntaxError.
ParseVuln(s) ==
  CASE s = "null" -> [ok |-> TRUE, val |-> JNull]
    [] s = TxtEmptyObj -> [ok |-> TRUE, val |-> VulnObj({}, FALSE, FALSE, "", "")]
    [] s = TxtVulnLow ->
         [ok |-> TRUE, val |-> VulnObj(VulnRequired, FALSE, FALSE, "", "Low")]
    [] s = TxtVulnStk ->
         [ok |-> TRUE,
          val |-> VulnObj(VulnRequired \cup {"isStkCommand"}, TRUE, TRUE, "", "Critical")]
    [] s = TxtVulnStkApp ->
         [ok |-> TRUE,
          val |-> VulnObj(VulnRequired \cup {"isStkCommand", "targetApp"},
                          TRUE, TRUE, "WIB", "High")]
    [] OTHER -> [ok |-> FALSE, val |-> JNull]

\* JSON.parse(text) read as a decode object.
ParseDecode(s) ==
  CASE s = "null" -> [ok |-> TRUE, val |-> JNull]
    [] s = TxtEmptyObj -> [ok |-> TRUE, val |-> DecodeObj({}, <<>>)]
    [] s = TxtDecode0 -> [ok |-> TRUE, val |-> DecodeObj({"components"}, <<>>)]
    [] s = TxtDecode2 ->
         [ok |-> TRUE, val |-> DecodeObj({"components"}, <<"PID", "DCS">>)]
    [] OTHER -> [ok |-> FALSE, val |-> JNull]

(***************************************************************************)
(* Oracle client (geminiService.ts).  Each returns the settlement of the   *)
(* promise: [st |-> "ok", val |-> v] or [st |-> "err", val |-> JNull].     *)
(***************************************************************************)
Rejected == [st |-> "err", val |-> JNull]
Fulfilled(v) == [st |-> "ok", val |-> v]

VulnFallback ==
  [t |-> "obj", keys |-> VulnRequired,
   isSilent |-> FALSE, isStkCommand |-> FALSE, targetApp |-> "",
   explanation |-> "Failed to parse analysis results.",
   riskLevel |-> "Low",
   mitigation |-> "Ensure the PDU string is valid hex format."]

analyzePduVulnerability(resp) ==
  IF resp.kind = "error" THEN Rejected            \* await generateContent throws
  ELSE IF resp.kind = "notext" THEN Fulfilled(VulnFallback)  \* .trim() of undefined, caught
  ELSE LET p == ParseVuln(Trim(resp.text))
       IN IF p.ok THEN Fulfilled(p.val) ELSE Fulfilled(VulnFallback)

DecodeFallback == DecodeObj({"components"}, <<>>)

decodePdu(resp) ==
  IF resp.kind = "error" THEN Rejected
  ELSE IF resp.kind = "notext" THEN Fulfilled(DecodeFallback)
  ELSE LET p == ParseDecode(Trim(resp.text))
       IN IF p.ok THEN Fulfilled(p.val) ELSE Fulfilled(DecodeFallback)


TxtImportWib == "{\"stkType\":\"WIB\",\"params\":{\"displayText\":\"Hello\"}}"
TxtImportUsat == "{\"stkType\":\"USAT\",\"params\":{\"commandType\":\"SEND SMS\"}}"
TxtCmd == "{\"name\":\"PROVIDE LOCAL INFO\",\"payload\":\"D0\",\"stkType\":\"SAT_BROWSER\"}"

JUndefined == "<undefined>"

ParamFields == {"commandType", "displayText", "targetNumber", "urlOrData", "pinOrPassword"}

Params(keys, cmd, text, target, data, pin) ==
  [keys |-> keys, commandType |-> cmd, displayText |-> text, targetNumber |-> target,
   urlOrData |-> data, pinOrPassword |-> pin]

NoParams == Params({}, "", "", "", "", "")

ImportObj(keys, type, params) ==
  [t |-> "obj", keys |-> keys, stkType |-> type, params |-> params]

\* JSON.parse(text) read as an import object.
ParseImport(s) ==
  CASE s = "null" -> [ok |-> TRUE, val |-> JNull]
    [] s = TxtEmptyObj -> [ok |-> TRUE, val |-> ImportObj({}, "", NoParams)]
    [] s = TxtImportWib ->
         [ok |-> TRUE,
          val |-> ImportObj({"stkType", "params"}, "WIB",
                            Params({"displayText"}, "", "Hello", "", "", ""))]
    [] s = TxtImportUsat ->
         [ok |-> TRUE,
          val |-> ImportObj({"stkType", "params"}, "USAT",
                            Params({"commandType"}, "SEND SMS", "", "", "", ""))]
    [] OTHER -> [ok |-> FALSE, val |-> JNull]

ImportFallback ==
  ImportObj({"stkType", "params"}, "SAT_BROWSER",
            Params(ParamFields, "DISPLAY TEXT", "", "", "", ""))

importStkParamsFromPdu(resp) ==
  IF resp.kind = "error" THEN Rejected
  ELSE IF resp.kind = "notext" THEN Fulfilled(ImportFallback)
  ELSE LET p == ParseImport(Trim(resp.text))
       IN IF p.ok THEN Fulfilled(p.val) ELSE Fulfilled(ImportFallback)

CmdObj(keys, name, type) == [t |-> "obj", keys |-> keys, name |-> name, stkType |-> type]

\* JSON.parse(text) read as a command object.
ParseCmd(s) ==
  CASE s = "null" -> [ok |-> TRUE, val |-> JNull]
    [] s = TxtCmd ->
         [ok |-> TRUE,
          val |-> CmdObj({"name", "payload", "stkType"}, "PROVIDE LOCAL INFO", "SAT_BROWSER")]
    [] OTHER -> [ok |-> FALSE, val |-> JNull]

\* No try/catch: a missing text or a SyntaxError rejects the promise.
getStkCommandInfo(resp) ==
  IF resp.kind # "text" THEN Rejected
  ELSE LET p == ParseCmd(Trim(resp.text))
       IN IF p.ok THEN Fulfilled(p.val) ELSE Rejected

\* Free text pass-through: [st, val] with val a string (JUndefined when the
\* reply carries no text).
RejectedText == [st |-> "err", val |-> ""]

simulateExfiltratedData(resp) ==
  IF resp.kind = "error" THEN RejectedText
  ELSE IF resp.kind = "notext" THEN [st |-> "ok", val |-> JUndefined]
  ELSE [st |-> "ok", val |-> resp.text]

getGeneralEducationalInfo(resp) ==
  IF resp.kind = "error" THEN RejectedText
  ELSE IF resp.kind = "notext" THEN [st |-> "ok", val |-> JUndefined]
  ELSE [st |-> "ok", val |-> resp.text]

\* Replies the oracle may give to each kind of request.
VulnReplies ==
  {RespError, RespNoText} \cup
  {RespText(s) : s \in {TxtProse, TxtNull, TxtEmptyObj, TxtVulnLow, TxtVulnStk, TxtVulnStkApp}}
DecodeReplies ==
  {RespError, RespNoText} \cup
  {RespText(s) : s \in {TxtTruncated, TxtNull, TxtEmptyObj, TxtDecode0, TxtDecode2}}
ImportReplies ==
  {RespError, RespNoText} \cup
  {RespText(s) : s \in {TxtProse, TxtNull, TxtEmptyObj, TxtImportWib, TxtImportUsat}}
CmdReplies ==
  {RespError, RespNoText} \cup {RespText(s) : s \in {TxtProse, TxtNull, TxtCmd}}
TextReplies == {RespError, RespNoText, RespText(TxtProse)}

\* The handlers the operator uses in a session.
AnalyzerSession == {"setPduInput", "handleAnalysis", "clearHistory"}
KnowledgeSession == {"applyExample", "handleAnalysis", "fetchEducation", "dismiss"}
ImportSession == {"setActiveTab", "setImportPdu", "setStkType", "handleImportPdu", "clearHistory"}
BuilderSession ==
  {"applyExample", "setBuilderParams", "handleBuilderSubmit", "termuxInput", "dismiss"}
SchedulerSession == {"toggleSimulation", "stop", "clearHistory"}
ScriptedRun == {"startTest"}     \* START TEST only: a run is never interrupted
FollowUpSession == {"setActiveTab", "startTest", "handleBuilderSubmit"}
InterruptedSession ==
  {"openBuilder", "startOnce", "submitRunning", "resetInterim", "stopInterim"}
Repertoires ==
  {AnalyzerSession, KnowledgeSession, ImportSession, BuilderSession, SchedulerSession,
   ScriptedRun, FollowUpSession, InterruptedSession}

\* Sessions explored on their own (PanelSpec, TeardownSpec, ConsoleSpec,
\* RaceSpec).
RaceSession == {"toggleSimulation", "toggleSimulationAgain", "clearHistory"}
ConsoleSession == {"setActiveTab", "termuxInput", "clearHistory"}
TeardownSession == {"toggleSimulation", "toggleSimulationAgain", "unmount"}
PanelSession == {"setPduInput", "handleAnalysis", "setActiveTab", "handleBuilderSubmit",
                 "dismiss"}

(***************************************************************************)
(* Session state (App.tsx)                                                 *)
(***************************************************************************)
VARIABLES
  activeTab, pduInput, importPdu, stkType, builderParams,
  history, isAnalyzing, isRunning,
  currentAnalysis, decodedPdu, stkCommand, educationalContent,
  intervalRef,     \* handle of the repeating timer, 0 for null
  intervals,       \* armed setInterval timers with their runNext closure
  timeouts,        \* armed setTimeout follow-ups (a bag)
  calls,           \* handler invocations suspended at an await (a bag)
  nextHandle,      \* next handle window.setInterval returns
  now,             \* Date.now()
  mounted,         \* the App component is in the tree
  repertoire       \* the handlers the operator uses in this session

formVars == <<activeTab, pduInput, importPdu, stkType, builderParams>>
resultVars == <<currentAnalysis, decodedPdu, stkCommand, educationalContent>>
timerVars == <<intervalRef, intervals, timeouts, nextHandle>>
vars == <<formVars, resultVars, timerVars, history, isAnalyzing, isRunning, calls, now,
          mounted, repertoire>>

Pending == [st |-> "pending", val |-> JNull]

\* A suspended invocation.  capRunning is the isRunning of the render whose
\* handleExecuteCommand was called (the value its continuation reads).
Call(op, cmdType, isAuto, hasParams, capRunning) ==
  [op |-> op, cmdType |-> cmdType, isAuto |-> isAuto, hasParams |-> hasParams,
   capRunning |-> capRunning, vuln |-> Pending, dec |-> Pending]

InitParams == Params(ParamFields, "DISPLAY TEXT", "", "", "", "")

\* The state of a freshly mounted App.
Start ==
  /\ activeTab = "analyzer"
  /\ pduInput = ""
  /\ importPdu = ""
  /\ stkType = "SAT_BROWSER"
  /\ builderParams = InitParams
  /\ history = <<>>
  /\ isAnalyzing = FALSE
  /\ isRunning = FALSE
  /\ currentAnalysis = JNull
  /\ decodedPdu = JNull
  /\ stkCommand = JNull
  /\ educationalContent = ""
  /\ intervalRef = 0
  /\ intervals = {}
  /\ timeouts = EmptyBag
  /\ calls = EmptyBag
  /\ nextHandle = 1
  /\ now = 0
  /\ mounted = TRUE

Init == Start /\ repertoire \in Repertoires

(***************************************************************************)
(* Activity log                                                            *)
(***************************************************************************)
Item(content, type) == [content |-> content, type |-> type]

\* Tokens Math.random().toString(36).substr(2, 9) may yield ("i" is what
\* 0.5 yields).  Nothing in the code reads an id, so one token stands for
\* all of them except in the console session, where two are told apart.
IdTokens == {"k3j9x0q2a", "i"}
IdSpace == IF repertoire = ConsoleSession THEN IdTokens ELSE {"k3j9x0q2a"}

\* Mutant: setHistory(prev => [entry, ...prev]).
addLog_Prepend(h, id, item) ==
  <<[id |-> id, timestamp |-> now, type |-> item.type, content |-> item.content]>> \o h

\* addLog(content, type) with the id Math.random yields.
addLog(h, id, item) ==
  Append(h, [id |-> id, timestamp |-> now, type |-> item.type, content |-> item.content])

\* The addLog calls of one handler run, in call order.
RECURSIVE addLogs(_, _, _)
addLogs(h, ids, items) ==
  IF items = <<>> THEN h
  ELSE addLogs(addLog(h, Head(ids), Head(items)), Tail(ids), Tail(items))

IdsFor(items) == [1..Len(items) -> IdSpace]

LogCap ==
  IF repertoire = ScriptedRun THEN MaxRunLog
  ELSE IF repertoire \in {FollowUpSession, RaceSession} THEN MaxFollowLog
  ELSE IF repertoire \in {InterruptedSession, TeardownSession} THEN MaxResetLog
  ELSE IF repertoire = PanelSession THEN MaxPanelLog
  ELSE MaxLog

Room(h, items) == Len(h) + Len(items) <= LogCap


(***************************************************************************)
(* Form and view handlers                                                  *)
(***************************************************************************)
Tabs == {"analyzer", "stk", "termux"}
StkTypes == {"SAT_BROWSER", "PROACTIVE_SIM", "WIB"}

Truthy(v) == IsObj(v)
TruthyText(s) == s # "" /\ s # JUndefined

\* Mutant: the spread of prev is dropped, p replaces the whole object.
Merge_Replace(prev, p) == p

\* {...prev, ...p}: the keys p carries replace those of prev.
Merge(prev, p) ==
  [k \in DOMAIN prev |->
     IF k = "keys" THEN prev.keys \cup p.keys
     ELSE IF k \in p.keys THEN p[k] ELSE prev[k]]

\* window.clearInterval(handle)
clearInterval(timers, handle) == {tm \in timers : tm.handle # handle}

\* The render of the state a handler run leaves: the analyzer tab maps over
\* decodedPdu.components whenever decodedPdu is truthy, which throws when the
\* object has no components.
RenderThrows(tab, dec) == tab = "analyzer" /\ IsObj(dec) /\ ~Has(dec, "components")

\* React renders the new state.  An exception thrown by the render reaches
\* the root (App has no error boundary): the tree is unmounted and the effect
\* cleanup cancels the timer intervalRef holds.  From then on the state
\* variables hold what the queued updates would yield; nothing displays them.
render ==
  LET thrown == mounted /\ RenderThrows(activeTab', decodedPdu')
  IN /\ mounted' = (mounted /\ ~thrown)
     /\ intervals' = IF thrown /\ intervalRef # 0
                      THEN clearInterval(intervals, intervalRef)
                      ELSE intervals

\* The host removes the App component from the tree: React runs the cleanup
\* of the mount effect, which cancels the timer intervalRef holds (the ref
\* itself is left as it is).
unmount ==
  /\ mounted
  /\ mounted' = FALSE
  /\ intervals' = IF intervalRef # 0 THEN clearInterval(intervals, intervalRef)
                  ELSE intervals
  /\ UNCHANGED <<formVars, resultVars, intervalRef, timeouts, nextHandle, history,
                 isAnalyzing, isRunning, calls, now>>

\* onClick of a tab button
setActiveTab(tab) ==
  /\ activeTab' = tab
  /\ UNCHANGED <<pduInput, importPdu, stkType, builderParams, resultVars, intervalRef,
                 timeouts, nextHandle, history, isAnalyzing, isRunning, calls, now>>
  /\ render

\* onChange of the SCAN_HEX input
setPduInput(v) ==
  /\ activeTab = "analyzer"
  /\ pduInput' = v
  /\ UNCHANGED <<activeTab, importPdu, stkType, builderParams, resultVars, timerVars,
                 history, isAnalyzing, isRunning, calls, now, mounted>>

\* onChange of the import input
setImportPdu(v) ==
  /\ activeTab = "stk"
  /\ importPdu' = v
  /\ UNCHANGED <<activeTab, pduInput, stkType, builderParams, resultVars, timerVars,
                 history, isAnalyzing, isRunning, calls, now, mounted>>

\* onChange of the environment select
setStkType(v) ==
  /\ activeTab = "stk"
  /\ stkType' = v
  /\ UNCHANGED <<activeTab, pduInput, importPdu, builderParams, resultVars, timerVars,
                 history, isAnalyzing, isRunning, calls, now, mounted>>

\* onChange of a builder form field
setBuilderParams(field, v) ==
  /\ activeTab = "stk"
  /\ builderParams' = [builderParams EXCEPT ![field] = v]
  /\ UNCHANGED <<activeTab, pduInput, importPdu, stkType, resultVars, timerVars,
                 history, isAnalyzing, isRunning, calls, now, mounted>>

educationalExamples ==
  << [name |-> "Non-Root Setup Guide", type |-> "termux", pdu |-> "",
      params |-> NoParams, stk |-> "", content |-> "Termux Setup (Non-Root)"],
     [name |-> "Silent SMS (Type 0)", type |-> "analyzer", pdu |-> SilentPdu,
      params |-> NoParams, stk |-> "", content |-> ""],
     [name |-> "Simjacker Location", type |-> "stk", pdu |-> "",
      params |-> Params({"commandType", "displayText", "urlOrData"},
                        "PROVIDE LOCAL INFO", "Get Location", "", "MCC/MNC/LAC/CellID", ""),
      stk |-> "SAT_BROWSER", content |-> ""],
     [name |-> "WIB IMEI Audit", type |-> "stk", pdu |-> "",
      params |-> Params({"commandType", "displayText", "urlOrData"},
                        "DISPLAY TEXT", "Audit Mode", "", "IMEI_REQ", ""),
      stk |-> "WIB", content |-> ""] >>

applyExample(ex) ==
  LET item ==
        IF ex.type = "analyzer"
        THEN Item("[EXAMPLE] Loaded " \o ex.name \o " into Analyzer.", "SYS_LOG")
        ELSE IF ex.type = "stk"
        THEN Item("[EXAMPLE] Loaded " \o ex.name \o " into STK Builder.", "SYS_LOG")
        ELSE Item("[INFO] Displaying Non-Root configuration guide.", "SYS_LOG")
  IN /\ Room(history, <<item>>)
     /\ activeTab' = ex.type
     /\ pduInput' = IF ex.type = "analyzer" THEN ex.pdu ELSE pduInput
     /\ stkType' = IF ex.type = "stk" THEN ex.stk ELSE stkType
     /\ builderParams' = IF ex.type = "stk" THEN Merge(builderParams, ex.params)
                         ELSE builderParams
     /\ educationalContent' = IF ex.type = "termux" THEN ex.content ELSE educationalContent
     /\ \E ids \in IdsFor(<<item>>) : history' = addLogs(history, ids, <<item>>)
     /\ UNCHANGED <<importPdu, currentAnalysis, decodedPdu, stkCommand, intervalRef,
                    timeouts, nextHandle, isAnalyzing, isRunning, calls, now>>
     /\ render

\* onKeyDown Enter of the termux input
termuxInput(v) ==
  LET item == Item(v, "TERMUX_CMD")
  IN /\ activeTab = "termux"
     /\ Room(history, <<item>>)
     /\ \E ids \in IdsFor(<<item>>) : history' = addLogs(history, ids, <<item>>)
     /\ UNCHANGED <<formVars, resultVars, timerVars, isAnalyzing, isRunning, calls, now, mounted>>

\* "Close Applet", "Return" and "New Analysis": the side panel shows the first
\* of stkCommand, educationalContent, currentAnalysis that is set.
dismissStkCommand ==
  /\ Truthy(stkCommand)
  /\ stkCommand' = JNull
  /\ UNCHANGED <<formVars, currentAnalysis, decodedPdu, educationalContent, timerVars,
                 history, isAnalyzing, isRunning, calls, now, mounted>>

dismissEducation ==
  /\ ~Truthy(stkCommand) /\ TruthyText(educationalContent)
  /\ educationalContent' = ""
  /\ UNCHANGED <<formVars, currentAnalysis, decodedPdu, stkCommand, timerVars,
                 history, isAnalyzing, isRunning, calls, now, mounted>>

dismissAnalysis ==
  /\ ~Truthy(stkCommand) /\ ~TruthyText(educationalContent) /\ Truthy(currentAnalysis)
  /\ currentAnalysis' = JNull
  /\ UNCHANGED <<formVars, decodedPdu, stkCommand, educationalContent, timerVars,
                 history, isAnalyzing, isRunning, calls, now, mounted>>


(***************************************************************************)
(* Request coordinator                                                     *)
(***************************************************************************)
Issue(c) == calls (+) SetToBag({c})
Settle(c) == calls (-) SetToBag({c})
CanIssue == BagCardinality(calls) < MaxCalls

AnalysisStartItems(pdu) ==
  << Item("pkg install sms-utils && python3 pdu_parse.py --hex "
            \o Substring0(pdu, PduPrefixLen) \o "...", "TERMUX_CMD"),
     Item("[ANALYZING] Probing for protocol anomalies...", "VULN_SCAN") >>

\* Mutant: a new analysis also clears the current StkCommand.
handleAnalysis_ClearsCommand ==
  /\ activeTab = "analyzer"
  /\ IF Trim(pduInput) = ""
     THEN UNCHANGED <<formVars, resultVars, timerVars, history, isAnalyzing, isRunning,
                      calls, now, mounted>>
     ELSE LET items == AnalysisStartItems(pduInput)
          IN /\ CanIssue /\ Room(history, items)
             /\ isAnalyzing' = TRUE
             /\ decodedPdu' = JNull
             /\ currentAnalysis' = JNull
             /\ stkCommand' = JNull
             /\ \E ids \in IdsFor(items) : history' = addLogs(history, ids, items)
             /\ calls' = Issue(Call("analysis", "", FALSE, FALSE, FALSE))
             /\ UNCHANGED <<formVars, educationalContent, timerVars,
                            isRunning, now, mounted>>

\* EXEC button / Enter in the SCAN_HEX input
handleAnalysis ==
  /\ activeTab = "analyzer"
  /\ IF Trim(pduInput) = ""
     THEN UNCHANGED <<formVars, resultVars, timerVars, history, isAnalyzing, isRunning,
                      calls, now, mounted>>
     ELSE LET items == AnalysisStartItems(pduInput)
          IN /\ CanIssue /\ Room(history, items)
             /\ isAnalyzing' = TRUE
             /\ decodedPdu' = JNull
             /\ currentAnalysis' = JNull
             /\ \E ids \in IdsFor(items) : history' = addLogs(history, ids, items)
             /\ calls' = Issue(Call("analysis", "", FALSE, FALSE, FALSE))
             /\ UNCHANGED <<formVars, stkCommand, educationalContent, timerVars,
                            isRunning, now, mounted>>

AnalysisFailedItem == Item("ERR: Analysis failed.", "SYS_LOG")

\* The log lines of the code after Promise.all resolves with [v, d]; a
\* TypeError (property read on null, .length of undefined) jumps to the catch.
AnalysisResultItems(v, d) ==
  IF ~IsObj(v) THEN <<AnalysisFailedItem>>
  ELSE << Item("Scan complete. Risk: "
                 \o (IF Has(v, "riskLevel") THEN v.riskLevel ELSE "undefined") \o ".",
               "VULN_SCAN") >>
       \o (IF Has(v, "isStkCommand") /\ v.isStkCommand
           THEN << Item("DETECTED: Binary SMS targeting "
                          \o (IF Has(v, "targetApp") /\ v.targetApp # ""
                              THEN v.targetApp ELSE "SIM Application") \o ".",
                        "SYS_LOG") >>
           ELSE <<>>)
       \o (IF Has(d, "components")
           THEN << Item("[DECODED] Bitstream parsed into "
                          \o ToString(Len(d.components)) \o " components.", "SUCCESS") >>
           ELSE <<AnalysisFailedItem>>)

\* Mutant: handleAnalysis without its finally block.
handleAnalysisFinally_Skipped == UNCHANGED isAnalyzing

\* The finally block of handleAnalysis.
handleAnalysisFinally == isAnalyzing' = FALSE

\* One of the two oracle calls of an analysis settles.  Promise.all rejects
\* on the first rejection and resolves when both calls have fulfilled; the
\* rest of handleAnalysis then runs.
handleAnalysisReply(c, part, resp) ==
  /\ BagIn(c, calls) /\ c.op = "analysis" /\ c[part].st = "pending"
  /\ LET s == IF part = "vuln" THEN analyzePduVulnerability(resp) ELSE decodePdu(resp)
         c2 == [c EXCEPT ![part] = s]
         other == IF part = "vuln" THEN c.dec ELSE c.vuln
     IN IF s.st = "err"
        THEN /\ Room(history, <<AnalysisFailedItem>>)
             /\ \E ids \in IdsFor(<<AnalysisFailedItem>>) :
                  history' = addLogs(history, ids, <<AnalysisFailedItem>>)
             /\ handleAnalysisFinally
             /\ calls' = Settle(c)
             /\ UNCHANGED <<formVars, resultVars, timerVars, isRunning, now, mounted>>
        ELSE IF other.st = "pending"
        THEN /\ calls' = Settle(c) (+) SetToBag({c2})
             /\ UNCHANGED <<formVars, resultVars, timerVars, history, isAnalyzing,
                            isRunning, now, mounted>>
        ELSE LET items == AnalysisResultItems(c2.vuln.val, c2.dec.val)
             IN /\ Room(history, items)
                /\ currentAnalysis' = c2.vuln.val
                /\ decodedPdu' = c2.dec.val
                /\ \E ids \in IdsFor(items) : history' = addLogs(history, ids, items)
                /\ handleAnalysisFinally
                /\ calls' = Settle(c)
                /\ UNCHANGED <<formVars, stkCommand, educationalContent, intervalRef,
                               timeouts, nextHandle, isRunning, now>>
                /\ render

ImportStartItem == Item("[STK] Importing parameters from existing PDU hex...", "SYS_LOG")
ImportDoneItem == Item("[STK] Form pre-filled from PDU data.", "SUCCESS")
ImportFailedItem == Item("[ERR] Failed to parse PDU for builder.", "SYS_LOG")

\* MAP button
handleImportPdu ==
  /\ activeTab = "stk"
  /\ IF Trim(importPdu) = ""
     THEN UNCHANGED <<formVars, resultVars, timerVars, history, isAnalyzing, isRunning,
                      calls, now, mounted>>
     ELSE /\ CanIssue /\ Room(history, <<ImportStartItem>>)
          /\ isAnalyzing' = TRUE
          /\ \E ids \in IdsFor(<<ImportStartItem>>) :
               history' = addLogs(history, ids, <<ImportStartItem>>)
          /\ calls' = Issue(Call("import", "", FALSE, FALSE, FALSE))
          /\ UNCHANGED <<formVars, resultVars, timerVars, isRunning, now, mounted>>

\* Mutant: setBuilderParams(result.params), the previous fields are dropped.
handleImportPduReply_Replaces(c, resp) ==
  /\ BagIn(c, calls) /\ c.op = "import"
  /\ LET s == importStkParamsFromPdu(resp)
         ok == s.st = "ok" /\ IsObj(s.val)      \* result.stkType of null throws
         item == IF ok THEN ImportDoneItem ELSE ImportFailedItem
     IN /\ Room(history, <<item>>)
        /\ stkType' = IF ~ok THEN stkType
                      ELSE IF Has(s.val, "stkType") THEN s.val.stkType ELSE JUndefined
        /\ builderParams' = IF ok /\ Has(s.val, "params")
                            THEN [builderParams EXCEPT
                                   !.keys = s.val.params.keys,
                                   !.commandType = s.val.params.commandType,
                                   !.displayText = s.val.params.displayText,
                                   !.targetNumber = s.val.params.targetNumber,
                                   !.urlOrData = s.val.params.urlOrData,
                                   !.pinOrPassword = s.val.params.pinOrPassword]
                            ELSE builderParams
        /\ \E ids \in IdsFor(<<item>>) : history' = addLogs(history, ids, <<item>>)
        /\ isAnalyzing' = FALSE
        /\ importPdu' = ""
        /\ calls' = Settle(c)
        /\ UNCHANGED <<activeTab, pduInput, resultVars, timerVars, isRunning, now, mounted>>

\* The rest of handleImportPdu once importStkParamsFromPdu settles.
handleImportPduReply(c, resp) ==
  /\ BagIn(c, calls) /\ c.op = "import"
  /\ LET s == importStkParamsFromPdu(resp)
         ok == s.st = "ok" /\ IsObj(s.val)      \* result.stkType of null throws
         item == IF ok THEN ImportDoneItem ELSE ImportFailedItem
     IN /\ Room(history, <<item>>)
        /\ stkType' = IF ~ok THEN stkType
                      ELSE IF Has(s.val, "stkType") THEN s.val.stkType ELSE JUndefined
        /\ builderParams' = IF ok /\ Has(s.val, "params")
                            THEN Merge(builderParams, s.val.params)
                            ELSE builderParams
        /\ \E ids \in IdsFor(<<item>>) : history' = addLogs(history, ids, <<item>>)
        /\ isAnalyzing' = FALSE
        /\ importPdu' = ""
        /\ calls' = Settle(c)
        /\ UNCHANGED <<activeTab, pduInput, resultVars, timerVars, isRunning, now, mounted>>

\* The synchronous part of handleExecuteCommand(cmdType, isAuto, params) as
\* defined in a render whose stkType was capStkType: its log lines.
ExecStartItems(isAuto, paramCmd, capStkType) ==
  (IF ~isAuto
   THEN <<Item("termux-sms-send -b -n [TARGET] \"STK_PAYLOAD_GEN\"", "TERMUX_CMD")>>
   ELSE <<>>)
  \o << Item("Generating invisible " \o capStkType \o " "
               \o (IF paramCmd # "" THEN paramCmd ELSE "EXECUTE") \o " COMMAND...",
             "SYS_LOG") >>

BuilderIntent(bp) ==
  "Construct a " \o bp.commandType \o " command with text \"" \o bp.displayText
    \o "\", target \"" \o bp.targetNumber \o "\", data \"" \o bp.urlOrData
    \o "\", and pin \"" \o bp.pinOrPassword \o "\""

\* onSubmit of the builder form
handleBuilderSubmit ==
  LET items == ExecStartItems(FALSE, builderParams.commandType, stkType)
  IN /\ activeTab = "stk"
     /\ CanIssue /\ Room(history, items)
     /\ isAnalyzing' = TRUE
     /\ \E ids \in IdsFor(items) : history' = addLogs(history, ids, items)
     /\ calls' = Issue(Call("exec", BuilderIntent(builderParams), FALSE, TRUE, isRunning))
     /\ UNCHANGED <<formVars, resultVars, timerVars, isRunning, now, mounted>>

ExecFailedItem(cmdType) ==
  Item("Command generation failed for " \o cmdType \o ".", "SYS_LOG")

\* The rest of handleExecuteCommand once getStkCommandInfo settles.
handleExecuteCommandReply(c, resp) ==
  /\ BagIn(c, calls) /\ c.op = "exec"
  /\ LET s == getStkCommandInfo(resp)
         ok == s.st = "ok" /\ IsObj(s.val)      \* info.name of null throws
         item == IF ok
                 THEN Item("STK payload ready: "
                             \o (IF Has(s.val, "name") THEN s.val.name ELSE "undefined"),
                           "STK_GEN")
                 ELSE ExecFailedItem(c.cmdType)
         followUp == ok /\ (c.capRunning \/ (~c.isAuto /\ ~c.hasParams))
     IN /\ Room(history, <<item>>)
        /\ followUp => BagCardinality(timeouts) < MaxTimeouts
        /\ stkCommand' = IF s.st = "ok" THEN s.val ELSE stkCommand
        /\ \E ids \in IdsFor(<<item>>) : history' = addLogs(history, ids, <<item>>)
        /\ timeouts' = IF followUp
                       THEN timeouts (+) SetToBag({[due |-> now + FollowUpDelay,
                                                    cmdType |-> c.cmdType]})
                       ELSE timeouts
        /\ isAnalyzing' = FALSE
        /\ calls' = Settle(c)
        /\ UNCHANGED <<formVars, currentAnalysis, decodedPdu, educationalContent,
                       intervalRef, intervals, nextHandle, isRunning, now, mounted>>

Topics ==
  {"Simjacker Vulnerability Summary", "S@T Browser SIM Alliance Protocol",
   "STK EXECUTE COMMAND proactive command structure",
   "How to protect SIM cards from silent commands",
   "How SIM cards exfiltrate device identifiers via SMS"}

\* A topic button (shown when the side panel has nothing else to show)
fetchEducation(topic) ==
  LET item == Item("[INFO] Retrieving educational data for: " \o topic, "SYS_LOG")
  IN /\ ~Truthy(stkCommand) /\ ~TruthyText(educationalContent) /\ ~Truthy(currentAnalysis)
     /\ CanIssue /\ Room(history, <<item>>)
     /\ isAnalyzing' = TRUE
     /\ \E ids \in IdsFor(<<item>>) : history' = addLogs(history, ids, <<item>>)
     /\ calls' = Issue(Call("edu", topic, FALSE, FALSE, FALSE))
     /\ UNCHANGED <<formVars, resultVars, timerVars, isRunning, now, mounted>>

\* Mutant: fetchEducation without its catch and finally.
fetchEducationReply_NoCatch(c, resp) ==
  /\ BagIn(c, calls) /\ c.op = "edu"
  /\ LET s == getGeneralEducationalInfo(resp)
     IN /\ educationalContent' = IF s.st = "ok" THEN s.val ELSE educationalContent
        /\ isAnalyzing' = (s.st # "ok" /\ isAnalyzing)
        /\ calls' = Settle(c)
        /\ UNCHANGED <<formVars, currentAnalysis, decodedPdu, stkCommand, timerVars,
                       history, isRunning, now, mounted>>

EduFailedItem == Item("[ERR] Failed to fetch education module.", "SYS_LOG")

fetchEducationReply(c, resp) ==
  /\ BagIn(c, calls) /\ c.op = "edu"
  /\ LET s == getGeneralEducationalInfo(resp)
     IN /\ IF s.st = "ok"
           THEN /\ educationalContent' = s.val
                /\ UNCHANGED history
           ELSE /\ Room(history, <<EduFailedItem>>)
                /\ \E ids \in IdsFor(<<EduFailedItem>>) :
                     history' = addLogs(history, ids, <<EduFailedItem>>)
                /\ UNCHANGED educationalContent
        /\ isAnalyzing' = FALSE
        /\ calls' = Settle(c)
        /\ UNCHANGED <<formVars, currentAnalysis, decodedPdu, stkCommand, timerVars,
                       isRunning, now, mounted>>


(***************************************************************************)
(* Simulation scheduler                                                    *)
(***************************************************************************)
StartItems ==
  << Item("sh start_extensive_audit.sh", "TERMUX_CMD"),
     Item("[SYSTEM] Starting automated vulnerability research sequence (Non-Root)...",
          "SYS_LOG") >>
CompletedItem == Item("[SYSTEM] Extensive audit sequence completed.", "SUCCESS")
HaltedItem == Item("[SYSTEM] Simulation halted by operator.", "SYS_LOG")

\* Mutant: stopSimulation() forgets the handle without cancelling the timer.
stopSimulation_KeepsTimer(timers, h) ==
  /\ isRunning' = FALSE
  /\ intervals' = timers
  /\ intervalRef' = 0
  /\ \E ids \in IdsFor(<<HaltedItem>>) : history' = addLogs(h, ids, <<HaltedItem>>)

\* Mutant: stopSimulation() without its setIsRunning(false).
stopSimulation_KeepsFlag(timers, h) ==
  /\ UNCHANGED isRunning
  /\ intervals' = IF intervalRef # 0 THEN clearInterval(timers, intervalRef) ELSE timers
  /\ intervalRef' = 0
  /\ \E ids \in IdsFor(<<HaltedItem>>) : history' = addLogs(h, ids, <<HaltedItem>>)

\* Mutant: stopSimulation() flips the running flag.
stopSimulation_Flip(timers, h) ==
  /\ isRunning' = ~isRunning
  /\ intervals' = IF intervalRef # 0 THEN clearInterval(timers, intervalRef) ELSE timers
  /\ intervalRef' = 0
  /\ \E ids \in IdsFor(<<HaltedItem>>) : history' = addLogs(h, ids, <<HaltedItem>>)

\* stopSimulation(), run after the earlier updates of the same handler run
\* left the timers as `timers` and the log as `h`.
stopSimulation(timers, h) ==
  /\ isRunning' = FALSE
  /\ intervals' = IF intervalRef # 0 THEN clearInterval(timers, intervalRef) ELSE timers
  /\ intervalRef' = 0
  /\ \E ids \in IdsFor(<<HaltedItem>>) : history' = addLogs(h, ids, <<HaltedItem>>)

\* startSimulation() of a render whose isRunning was capRunning: step 0 runs
\* at once, then the repeating timer is armed.  runNext keeps the
\* handleExecuteCommand of that render, hence its isRunning and stkType.
startSimulationOf(capRunning) ==
  LET items == StartItems \o ExecStartItems(TRUE, "", stkType)
  IN /\ nextHandle <= MaxTimers
     /\ CanIssue /\ Room(history, items)
     /\ isRunning' = TRUE
     /\ isAnalyzing' = TRUE
     /\ \E ids \in IdsFor(items) : history' = addLogs(history, ids, items)
     /\ calls' = Issue(Call("exec", autoCommands[1], TRUE, FALSE, capRunning))
     /\ intervals' = intervals \cup
                       {[handle |-> nextHandle, due |-> now + IntervalPeriod, index |-> 1,
                         capRunning |-> capRunning, capStkType |-> stkType, stepAt |-> now]}
     /\ intervalRef' = nextHandle
     /\ nextHandle' = nextHandle + 1
     /\ UNCHANGED <<formVars, resultVars, timeouts, now, mounted>>

\* startSimulation() of the current render.
startSimulation == startSimulationOf(isRunning)

\* A second click on START TEST dispatched before React has rendered the
\* first: it runs the toggleSimulation of the render the first click ran in,
\* whose isRunning is false, and so calls startSimulation() again.
toggleSimulationAgain ==
  /\ isRunning
  /\ \E tm \in intervals : tm.handle = intervalRef /\ tm.index = 1 /\ tm.stepAt = now
  /\ history # <<>>
  /\ history[Len(history)].content = ExecStartItems(TRUE, "", stkType)[1].content
  /\ history[Len(history)].timestamp = now
  /\ startSimulationOf(FALSE)

\* START TEST / STOP TEST button
toggleSimulation ==
  /\ IF isRunning
     THEN /\ Room(history, <<HaltedItem>>)
          /\ stopSimulation(intervals, history)
          /\ UNCHANGED <<formVars, resultVars, timeouts, nextHandle, isAnalyzing, calls, now, mounted>>
     ELSE startSimulation

\* Mutant: at the end of the list runNext logs completion but does not stop.
runNext_NoStop(tm) ==
  /\ tm \in intervals /\ tm.due <= now
  /\ IF tm.index >= Len(autoCommands)
     THEN /\ Room(history, <<CompletedItem>>)
          /\ \E ids \in IdsFor(<<CompletedItem>>) :
               history' = addLogs(history, ids, <<CompletedItem>>)
          /\ intervals' = (intervals \ {tm}) \cup {[tm EXCEPT !.due = now + IntervalPeriod]}
          /\ UNCHANGED <<formVars, resultVars, intervalRef, timeouts, nextHandle,
                         isAnalyzing, isRunning, calls, now, mounted>>
     ELSE LET items == ExecStartItems(TRUE, "", tm.capStkType)
          IN /\ CanIssue /\ Room(history, items)
             /\ isAnalyzing' = TRUE
             /\ \E ids \in IdsFor(items) : history' = addLogs(history, ids, items)
             /\ calls' = Issue(Call("exec", autoCommands[tm.index + 1], TRUE, FALSE,
                                    tm.capRunning))
             /\ intervals' = (intervals \ {tm}) \cup
                               {[tm EXCEPT !.due = now + IntervalPeriod,
                                           !.index = tm.index + 1, !.stepAt = now]}
             /\ UNCHANGED <<formVars, resultVars, intervalRef, timeouts, nextHandle,
                            isRunning, now, mounted>>

\* A tick of the repeating timer tm: runNext() of its closure.  The timer is
\* then due again one period later, unless runNext cancelled it.
runNext(tm) ==
  /\ tm \in intervals /\ tm.due <= now
  /\ IF tm.index >= Len(autoCommands)
     THEN /\ Room(history, <<CompletedItem, HaltedItem>>)
          /\ \E id \in IdSpace :
               stopSimulation((intervals \ {tm}) \cup {[tm EXCEPT !.due = now + IntervalPeriod]},
                              addLog(history, id, CompletedItem))
          /\ UNCHANGED <<formVars, resultVars, timeouts, nextHandle, isAnalyzing, calls, now, mounted>>
     ELSE LET items == ExecStartItems(TRUE, "", tm.capStkType)
          IN /\ CanIssue /\ Room(history, items)
             /\ isAnalyzing' = TRUE
             /\ \E ids \in IdsFor(items) : history' = addLogs(history, ids, items)
             /\ calls' = Issue(Call("exec", autoCommands[tm.index + 1], TRUE, FALSE,
                                    tm.capRunning))
             /\ intervals' = (intervals \ {tm}) \cup
                               {[tm EXCEPT !.due = now + IntervalPeriod,
                                           !.index = tm.index + 1, !.stepAt = now]}
             /\ UNCHANGED <<formVars, resultVars, intervalRef, timeouts, nextHandle,
                            isRunning, now, mounted>>

InterceptItem == Item("[INTERCEPT] Incoming silent recovery SMS from target...", "SYS_LOG")

\* The setTimeout callback of handleExecuteCommand fires.
followUp(t) ==
  /\ BagIn(t, timeouts) /\ t.due <= now
  /\ CanIssue /\ Room(history, <<InterceptItem>>)
  /\ \E ids \in IdsFor(<<InterceptItem>>) :
       history' = addLogs(history, ids, <<InterceptItem>>)
  /\ timeouts' = timeouts (-) SetToBag({t})
  /\ calls' = Issue(Call("exfil", t.cmdType, FALSE, FALSE, FALSE))
  /\ UNCHANGED <<formVars, resultVars, intervalRef, intervals, nextHandle, isAnalyzing,
                 isRunning, now, mounted>>

\* simulateExfiltratedData settles; a rejection ends the callback with no
\* handler (nothing is logged).
followUpReply(c, resp) ==
  /\ BagIn(c, calls) /\ c.op = "exfil"
  /\ LET s == simulateExfiltratedData(resp)
         items == IF s.st = "ok"
                  THEN << Item("RECOVERY_DATA: "
                                 \o (IF s.val = JUndefined THEN "undefined" ELSE s.val),
                               "RECV_DATA"),
                          Item("[SYSTEM] Information exfiltrated back via silent SMS.",
                               "SUCCESS") >>
                  ELSE <<>>
     IN /\ Room(history, items)
        /\ \E ids \in IdsFor(items) : history' = addLogs(history, ids, items)
        /\ calls' = Settle(c)
        /\ UNCHANGED <<formVars, resultVars, timerVars, isAnalyzing, isRunning, now, mounted>>

\* Mutant: the reset also cancels the armed follow-up events.
clearHistory_CancelsFollowUps ==
  /\ currentAnalysis' = JNull
  /\ decodedPdu' = JNull
  /\ stkCommand' = JNull
  /\ pduInput' = ""
  /\ educationalContent' = ""
  /\ timeouts' = EmptyBag
  /\ IF isRunning
     THEN stopSimulation(intervals, <<>>)
     ELSE /\ history' = <<>>
          /\ UNCHANGED <<isRunning, intervals, intervalRef>>
  /\ UNCHANGED <<activeTab, importPdu, stkType, builderParams, nextHandle,
                 isAnalyzing, calls, now, mounted>>

\* Reset_Session button
clearHistory ==
  /\ currentAnalysis' = JNull
  /\ decodedPdu' = JNull
  /\ stkCommand' = JNull
  /\ pduInput' = ""
  /\ educationalContent' = ""
  /\ IF isRunning
     THEN stopSimulation(intervals, <<>>)
     ELSE /\ history' = <<>>
          /\ UNCHANGED <<isRunning, intervals, intervalRef>>
  /\ UNCHANGED <<activeTab, importPdu, stkType, builderParams, timeouts, nextHandle,
                 isAnalyzing, calls, now, mounted>>

\* Time passes until an armed timer is due (timers may fire late, so the
\* clock may also pass a due time).
DueTimes == {tm.due : tm \in intervals} \cup {t.due : t \in BagToSet(timeouts)}

Tick ==
  /\ \E d \in DueTimes : d > now /\ d <= MaxTime /\ now' = d
  /\ UNCHANGED <<formVars, resultVars, timerVars, history, isAnalyzing, isRunning, calls,
                 mounted>>

\* stopSimulation() called on its own, in whatever state the session is in.
stop ==
  /\ Room(history, <<HaltedItem>>)
  /\ stopSimulation(intervals, history)
  /\ UNCHANGED <<formVars, resultVars, timeouts, nextHandle, isAnalyzing, calls, now, mounted>>

(***************************************************************************)
(* Specification.  A session is explored for each repertoire of the        *)
(* operator: the handlers the operator uses in that session.  The oracle   *)
(* and the timers are never restricted.                                    *)
(***************************************************************************)
Uses(op) == op \in repertoire

AskedTopics == {"Simjacker Vulnerability Summary"}
EditedFields == {"pinOrPassword"}
EditedTexts == {"1234"}
TermuxTexts == {"ls"}

Same == UNCHANGED repertoire

\* The operator acts through the rendered page.
Operator(op) == mounted /\ Uses(op)

Next ==
  \/ Same /\ \E tab \in Tabs :
               /\ Operator("setActiveTab") \/ (Operator("openBuilder") /\ tab = "stk")
               /\ setActiveTab(tab)
  \/ Operator("setPduInput") /\ Same /\ \E v \in InputTexts : setPduInput(v)
  \/ Operator("setImportPdu") /\ Same /\ \E v \in InputTexts : setImportPdu(v)
  \/ Operator("setStkType") /\ Same /\ \E v \in StkTypes : setStkType(v)
  \/ Operator("setBuilderParams") /\ Same
       /\ \E f \in EditedFields, v \in EditedTexts : setBuilderParams(f, v)
  \/ Operator("applyExample") /\ Same
       /\ \E i \in DOMAIN educationalExamples : applyExample(educationalExamples[i])
  \/ Operator("termuxInput") /\ Same /\ \E v \in TermuxTexts : termuxInput(v)
  \/ Operator("dismiss") /\ Same /\ dismissStkCommand
  \/ Operator("dismiss") /\ Same /\ dismissEducation
  \/ Operator("dismiss") /\ Same /\ dismissAnalysis
  \/ Operator("handleAnalysis") /\ Same /\ handleAnalysis
  \/ Operator("handleImportPdu") /\ Same /\ handleImportPdu
  \/ (\/ Operator("handleBuilderSubmit")
      \/ Operator("submitRunning") /\ isRunning /\ timeouts = EmptyBag
           /\ \A c \in BagToSet(calls) : c.isAuto) /\ Same
       /\ handleBuilderSubmit
  \/ Operator("fetchEducation") /\ Same /\ \E topic \in AskedTopics : fetchEducation(topic)
  \/ (\/ Operator("toggleSimulation")
      \/ Operator("startTest") /\ ~isRunning
      \/ Operator("startOnce") /\ ~isRunning /\ nextHandle = 1
      \/ Operator("stopInterim") /\ isRunning /\ timeouts # EmptyBag) /\ Same
       /\ toggleSimulation
  \/ Operator("stop") /\ Same /\ stop
  \/ (Operator("clearHistory") \/ (Operator("resetInterim") /\ timeouts # EmptyBag)) /\ Same
       /\ clearHistory
  \/ Same /\ \E c \in BagToSet(calls), resp \in VulnReplies :
               handleAnalysisReply(c, "vuln", resp)
  \/ Same /\ \E c \in BagToSet(calls), resp \in DecodeReplies :
               handleAnalysisReply(c, "dec", resp)
  \/ Same /\ \E c \in BagToSet(calls), resp \in ImportReplies : handleImportPduReply(c, resp)
  \/ Same /\ \E c \in BagToSet(calls), resp \in CmdReplies :
               handleExecuteCommandReply(c, resp)
  \/ Same /\ \E c \in BagToSet(calls), resp \in TextReplies : fetchEducationReply(c, resp)
  \/ Same /\ \E c \in BagToSet(calls), resp \in TextReplies : followUpReply(c, resp)
  \/ Same /\ \E tm \in intervals : runNext(tm)
  \/ Same /\ \E t \in BagToSet(timeouts) : followUp(t)
  \/ Same /\ Tick

Spec == Init /\ [][Next]_vars


\* A scripted run the operator starts and then leaves alone: the page with
\* START TEST pressed once, the oracle answering each step and the timer
\* firing when due.
RunNext ==
  \/ Operator("startTest") /\ ~isRunning /\ nextHandle = 1 /\ Same /\ toggleSimulation
  \/ Same /\ \E c \in BagToSet(calls), resp \in CmdReplies :
               handleExecuteCommandReply(c, resp)
  \/ Same /\ \E tm \in intervals : runNext(tm)
  \/ Same /\ Tick

RunInit == Init /\ repertoire = ScriptedRun

RunSpec ==
  /\ RunInit
  /\ [][RunNext]_vars
  /\ WF_vars(Same /\ Tick)
  /\ WF_vars(Same /\ \E tm \in intervals : runNext(tm))
  /\ WF_vars(Same /\ \E c \in BagToSet(calls), resp \in CmdReplies :
                        handleExecuteCommandReply(c, resp))

\* A session in which the operator analyses a PDU and builds a command, in
\* either order, and dismisses results.
PanelNext ==
  \/ mounted /\ Same /\ \E tab \in {"analyzer", "stk"} : setActiveTab(tab)
  \/ mounted /\ Same /\ setPduInput(SilentPdu)
  \/ mounted /\ Same /\ handleAnalysis
  \/ mounted /\ Same /\ handleBuilderSubmit
  \/ mounted /\ Same /\ dismissStkCommand
  \/ mounted /\ Same /\ dismissAnalysis
  \/ Same /\ \E c \in BagToSet(calls), resp \in VulnReplies :
               handleAnalysisReply(c, "vuln", resp)
  \/ Same /\ \E c \in BagToSet(calls), resp \in DecodeReplies :
               handleAnalysisReply(c, "dec", resp)
  \/ Same /\ \E c \in BagToSet(calls), resp \in CmdReplies :
               handleExecuteCommandReply(c, resp)

PanelInit == Start /\ repertoire = PanelSession

PanelSpec == PanelInit /\ [][PanelNext]_vars

\* A session in which the operator starts and stops the scheduler and the
\* component is removed at some point; the oracle's answers and the timers
\* outlive the component.
TeardownNext ==
  \/ mounted /\ Same /\ toggleSimulation
  \/ mounted /\ Same /\ toggleSimulationAgain
  \/ Same /\ unmount
  \/ Same /\ \E c \in BagToSet(calls), resp \in CmdReplies :
               handleExecuteCommandReply(c, resp)
  \/ Same /\ \E tm \in intervals : runNext(tm)
  \/ Same /\ Tick

TeardownInit == Start /\ repertoire = TeardownSession

TeardownSpec == TeardownInit /\ [][TeardownNext]_vars

\* A session at the console: the operator types lines on the termux tab and
\* resets the session.
ConsoleNext ==
  \/ mounted /\ Same /\ \E tab \in Tabs : setActiveTab(tab)
  \/ mounted /\ Same /\ \E v \in TermuxTexts : termuxInput(v)
  \/ mounted /\ Same /\ clearHistory

ConsoleInit == Start /\ repertoire = ConsoleSession

ConsoleSpec == ConsoleInit /\ [][ConsoleNext]_vars

\* A session in which START TEST may be clicked twice before a render; the
\* run is then stopped or reset.
RaceNext ==
  \/ mounted /\ Same /\ toggleSimulation
  \/ mounted /\ Same /\ toggleSimulationAgain
  \/ mounted /\ isRunning /\ Same /\ clearHistory
  \/ Same /\ \E c \in BagToSet(calls), resp \in CmdReplies :
               handleExecuteCommandReply(c, resp)
  \/ Same /\ \E tm \in intervals : runNext(tm)
  \/ Same /\ Tick

RaceInit == Start /\ repertoire = RaceSession

RaceSpec == RaceInit /\ [][RaceNext]_vars

(***************************************************************************)
(* Properties                                                              *)
(***************************************************************************)
\* The suspended invocations of the gated operations of the request
\* coordinator (the follow-up's simulateExfiltratedData call is not one).
CoordOps == {"analysis", "import", "exec", "edu"}
Outstanding(b) == {c \in BagToSet(b) : c.op \in CoordOps}
Count(b, ops) ==
  BagCardinality([c \in {x \in BagToSet(b) : x.op \in ops} |-> b[c]])

\* C1: reset-session, applied in any reachable state (also while a scripted
\* run is active), yields in one transition an empty log, no current
\* AnalysisResult / DecodedPdu / StkCommand, cleared input buffers,
\* running = false and the repeating timer cancelled with its handle cleared.
C1_ResetYieldsCleanSession ==
  [][clearHistory =>
       /\ history' = <<>>
       /\ currentAnalysis' = JNull /\ decodedPdu' = JNull /\ stkCommand' = JNull
       /\ pduInput' = "" /\ importPdu' = ""
       /\ isRunning' = FALSE /\ intervalRef' = 0 /\ intervals' = {}]_vars

\* C2: while the in-flight flag is true, an invocation of a gated operation
\* (submit-for-analysis, import-params, submit-builder-form, fetch-topic) is
\* rejected: it issues no oracle request.
C2_GatedWhileInFlight ==
  [][(isAnalyzing /\ (\/ handleAnalysis
                      \/ handleImportPdu
                      \/ handleBuilderSubmit
                      \/ \E topic \in Topics : fetchEducation(topic)))
       => calls' = calls]_vars

\* C3: whenever a request of the coordinator (issued by the operator or by a
\* scheduler tick) has been issued and not yet settled, the in-flight flag is
\* true.
C3_FlagCoversOutstanding == Outstanding(calls) # {} => isAnalyzing

\* C4: the in-flight flag is never stuck: whenever no request of the
\* coordinator is outstanding, the flag is false.
C4_FlagNeverStuck == Outstanding(calls) = {} => ~isAnalyzing

\* C4 witness: an analysis has settled by failure, nothing is outstanding and
\* the flag is back to false.
C4_Witness ==
  /\ calls = EmptyBag
  /\ ~isAnalyzing
  /\ Len(history) >= 3
  /\ history[Len(history)].content = "ERR: Analysis failed."

\* C5: a submission for analysis with non-blank input sets the in-flight
\* flag and appends the submission marker in the step that issues the oracle
\* calls; it settles exactly once (success, fallback or failure), and the
\* settling step leaves a session (still on the page) whose flag is false
\* and whose log has gained a result or failure line.
AnalysisMarker == "[ANALYZING] Probing for protocol anomalies..."
ResultLines(h) ==
  {i \in 1..Len(h) :
     \/ h[i].content = "ERR: Analysis failed."
     \/ SubSeq(h[i].content, 1, 9) \in {"Scan comp", "[DECODED]"}}

C5_AnalysisSettlesOnce ==
  [][LET before == Count(calls, {"analysis"})
         after == Count(calls', {"analysis"})
     IN /\ after > before =>
             /\ after = before + 1
             /\ Trim(pduInput) # ""
             /\ isAnalyzing'
             /\ Len(history') = Len(history) + 2
             /\ SubSeq(history', 1, Len(history)) = history
             /\ history'[Len(history')].content = AnalysisMarker
        /\ after < before =>
             /\ after = before - 1
             /\ mounted => mounted'
             /\ ~isAnalyzing'
             /\ Len(history') > Len(history)
             /\ SubSeq(history', 1, Len(history)) = history
             /\ Len(history') \in ResultLines(history')]_vars

\* C6: a handler run changes the log only by appending entries at its end
\* (stamped with the current time, in call order) or by clearing it entirely
\* before it appends; entries are never mutated, reordered or removed one by
\* one, and timestamps along the log never decrease.
IsPrefix(h, g) == Len(h) <= Len(g) /\ SubSeq(g, 1, Len(h)) = h
Stamped(h, from) == \A i \in from..Len(h) : h[i].timestamp = now

C6_LogAppendOnly ==
  /\ [](\A i \in 1..Len(history) - 1 :
          /\ history[i].timestamp <= history[i + 1].timestamp
          /\ history[i + 1].content = AnalysisMarker => history[i].type = "TERMUX_CMD")
  /\ [][\/ IsPrefix(history, history') /\ Stamped(history', Len(history) + 1)
        \/ clearHistory /\ Stamped(history', 1)]_vars

\* C6 witness: a log whose entries were appended at different times.
C6_Witness ==
  /\ Len(history) >= 4
  /\ history[1].timestamp < history[Len(history)].timestamp
  /\ history[1].content = "sh start_extensive_audit.sh"

\* C7: starting the scheduler triggers step 0 in the same transition; a tick
\* triggers the next step of the list, never earlier than 8000 time units
\* after the previous step was triggered; nothing else triggers a step.
MinStepSpacing == 8000
Triggered(cmd) ==
  \E c \in BagToSet(calls') :
    /\ c.op = "exec" /\ c.isAuto /\ c.cmdType = cmd
    /\ CopiesIn(c, calls') = CopiesIn(c, calls) + 1
AutoCalls(b) ==
  BagCardinality([c \in {x \in BagToSet(b) : x.op = "exec" /\ x.isAuto} |-> b[c]])

C7_StepsPaced ==
  [][/\ (~isRunning /\ isRunning') =>
          /\ now' = now
          /\ Triggered(autoCommands[1])
          /\ \E tm \in intervals' \ intervals : tm.index = 1 /\ tm.stepAt = now
     /\ \A tm \in intervals, tm2 \in intervals' :
          (tm2.handle = tm.handle /\ tm2.index # tm.index) =>
             /\ tm2.index = tm.index + 1
             /\ now >= tm.stepAt + MinStepSpacing
             /\ tm2.stepAt = now
             /\ Triggered(autoCommands[tm2.index])
     /\ AutoCalls(calls') > AutoCalls(calls) =>
          \/ ~isRunning /\ isRunning'
          \/ \E tm \in intervals, tm2 \in intervals' :
               tm2.handle = tm.handle /\ tm2.index = tm.index + 1]_vars

\* C7 witness: every step of the list has been triggered, the last one three
\* periods or more after the start.
C7_Witness ==
  /\ isRunning
  /\ \E tm \in intervals :
       tm.index = Len(autoCommands) /\ tm.stepAt >= 3 * MinStepSpacing

C9_DecodeAlwaysHasComponents ==
  /\ \A c \in BagToSet(calls) :
       (c.op = "analysis" /\ c.dec.st = "ok") => Has(c.dec.val, "components")
  /\ decodedPdu # JNull => Has(decodedPdu, "components")

\* C10: analyzePduVulnerability fails closed: every value it fulfils with,
\* and so every AnalysisResult the session stores, has the expected shape
\* (the parsed result or the fixed fallback).
ValidAnalysis(v) == IsObj(v) /\ \A k \in VulnRequired : Has(v, k)

C10_AnalysisFailsClosed ==
  /\ \A c \in BagToSet(calls) :
       (c.op = "analysis" /\ c.vuln.st = "ok") => ValidAnalysis(c.vuln.val)
  /\ currentAnalysis # JNull => ValidAnalysis(currentAnalysis)

\* C11: when the oracle's response to an import fails to parse,
\* importStkParamsFromPdu returns the fixed default: stkType SAT_BROWSER and
\* params whose five fields are all empty; handleImportPdu then leaves the
\* environment SAT_BROWSER and every builder field empty.
Unparsed(resp) ==
  \/ resp.kind = "notext"
  \/ resp.kind = "text" /\ ~ParseImport(Trim(resp.text)).ok

C11_ImportDefaultAllEmpty ==
  [][\A c \in BagToSet(calls), resp \in ImportReplies :
       (Unparsed(resp) /\ handleImportPduReply(c, resp)) =>
          /\ importStkParamsFromPdu(resp).val.stkType = "SAT_BROWSER"
          /\ \A f \in ParamFields : importStkParamsFromPdu(resp).val.params[f] = ""
          /\ stkType' = "SAT_BROWSER"
          /\ \A f \in ParamFields : builderParams'[f] = ""]_vars

\* C12: applying a builder preset shows the builder view, sets the
\* environment to the preset's type, sets the builder fields the preset
\* carries to the preset's values, leaves every other builder field as it
\* was, and appends exactly one log line.
BuilderPresets == {i \in DOMAIN educationalExamples : educationalExamples[i].type = "stk"}

C12_PresetMergesIntoBuilder ==
  [][\A i \in BuilderPresets :
       LET ex == educationalExamples[i]
       IN applyExample(ex) =>
            /\ activeTab' = "stk"
            /\ stkType' = ex.stk
            /\ \A f \in ParamFields :
                 builderParams'[f] = IF f \in ex.params.keys THEN ex.params[f]
                                     ELSE builderParams[f]
            /\ Len(history') = Len(history) + 1
            /\ SubSeq(history', 1, Len(history)) = history
            /\ history'[Len(history')].content
                 = "[EXAMPLE] Loaded " \o ex.name \o " into STK Builder."]_vars

\* C12 witness: the "Simjacker Location" preset was applied after the
\* operator had typed a pin, and the pin is still there.
C12_Witness ==
  /\ history # <<>>
  /\ history[Len(history)].content
       = "[EXAMPLE] Loaded Simjacker Location into STK Builder."
  /\ activeTab = "stk" /\ stkType = "SAT_BROWSER"
  /\ builderParams.commandType = "PROVIDE LOCAL INFO"
  /\ builderParams.displayText = "Get Location"
  /\ builderParams.urlOrData = "MCC/MNC/LAC/CellID"
  /\ builderParams.pinOrPassword = "1234"

\* C13: when the oracle call of a gated operation fails, the handler takes
\* the failure itself: the request is settled, exactly one failure line is
\* appended, the in-flight flag is cleared, no result changes and the session
\* stays on the page, ready for another attempt.
FailedOnce(c, item) ==
  /\ calls' = Settle(c)
  /\ Len(history') = Len(history) + 1
  /\ SubSeq(history', 1, Len(history)) = history
  /\ history'[Len(history')].content = item.content
  /\ ~isAnalyzing'
  /\ UNCHANGED resultVars
  /\ mounted' = mounted

C13_FailureIsOneLogLine ==
  [][\A c \in BagToSet(calls) :
       /\ \A resp \in VulnReplies :
            (analyzePduVulnerability(resp).st = "err" /\ handleAnalysisReply(c, "vuln", resp))
              => FailedOnce(c, AnalysisFailedItem)
       /\ \A resp \in DecodeReplies :
            (decodePdu(resp).st = "err" /\ handleAnalysisReply(c, "dec", resp))
              => FailedOnce(c, AnalysisFailedItem)
       /\ \A resp \in ImportReplies :
            (importStkParamsFromPdu(resp).st = "err" /\ handleImportPduReply(c, resp))
              => FailedOnce(c, ImportFailedItem)
       /\ \A resp \in CmdReplies :
            (getStkCommandInfo(resp).st = "err" /\ handleExecuteCommandReply(c, resp))
              => FailedOnce(c, ExecFailedItem(c.cmdType))
       /\ \A resp \in TextReplies :
            (getGeneralEducationalInfo(resp).st = "err" /\ fetchEducationReply(c, resp))
              => FailedOnce(c, EduFailedItem)]_vars

\* C13 witness: a topic fetch has failed; its failure line ends the log, the
\* flag is clear and nothing is outstanding.
C13_Witness ==
  /\ history # <<>>
  /\ history[Len(history)].content = EduFailedItem.content
  /\ calls = EmptyBag /\ ~isAnalyzing /\ mounted
  /\ educationalContent = ""

\* C14: submit-for-analysis and import-params, invoked with an empty or
\* whitespace-only input buffer, issue no oracle request, append no log entry
\* and change nothing of the session.
IsBlank(s) == \A i \in 1..Len(s) : IsSpace(SubSeq(s, i, i))

C14_BlankInputRejected ==
  [][/\ (IsBlank(pduInput) /\ handleAnalysis) => UNCHANGED vars
     /\ (IsBlank(importPdu) /\ handleImportPdu) => UNCHANGED vars]_vars

\* C14 witness: the analyzer's input holds only spaces and EXEC can be
\* pressed; nothing was logged or requested.
C14_Witness ==
  /\ mounted /\ activeTab = "analyzer" /\ "handleAnalysis" \in repertoire
  /\ pduInput = "   "
  /\ history = <<>> /\ calls = EmptyBag /\ ~isAnalyzing

\* C15: reset-session restores the whole session state to its initial
\* values: besides the results, also the active view, the import buffer,
\* the builder params, the environment type and the in-flight flag.
C15_ResetRestoresInitialState ==
  [][clearHistory =>
       /\ currentAnalysis' = JNull /\ decodedPdu' = JNull /\ stkCommand' = JNull
       /\ educationalContent' = "" /\ pduInput' = ""
       /\ activeTab' = "analyzer"
       /\ importPdu' = ""
       /\ builderParams' = InitParams
       /\ stkType' = "SAT_BROWSER"
       /\ ~isAnalyzing']_vars

\* C16: when a paired decode+analyze submission settles, either it is
\* reported as success and the current AnalysisResult and DecodedPdu are both
\* the values of this submission, or it is reported as failure (the failure
\* line ends the log) and the settlement set neither of the two.
C16_BothOrNeither ==
  [][Count(calls', {"analysis"}) < Count(calls, {"analysis"}) =>
       IF history'[Len(history')].content = AnalysisFailedItem.content
       THEN currentAnalysis' = currentAnalysis /\ decodedPdu' = decodedPdu
       ELSE /\ IsObj(currentAnalysis') /\ IsObj(decodedPdu')
            /\ \E c \in BagToSet(calls) :
                 /\ c.op = "analysis"
                 /\ \/ c.vuln.st = "ok" /\ currentAnalysis' = c.vuln.val
                    \/ c.dec.st = "ok" /\ decodedPdu' = c.dec.val]_vars

\* C17: when execute-command succeeds, a follow-up event is scheduled 2500
\* time units ahead if and only if a scripted run is active at that time or
\* the call was interactive without pre-supplied parameters.
ExecSucceeds(resp) == getStkCommandInfo(resp).st = "ok" /\ IsObj(getStkCommandInfo(resp).val)

C17_FollowUpIffRunningOrBare ==
  [][\A c \in BagToSet(calls), resp \in CmdReplies :
       (ExecSucceeds(resp) /\ handleExecuteCommandReply(c, resp)) =>
          ((\E t \in BagToSet(timeouts') :
              /\ t.due = now + FollowUpDelay
              /\ CopiesIn(t, timeouts') = CopiesIn(t, timeouts) + 1)
           <=> (isRunning \/ (~c.isAuto /\ ~c.hasParams)))]_vars

StopCalled ==
  \/ isRunning /\ toggleSimulation
  \/ stop
  \/ isRunning /\ clearHistory
  \/ \E tm \in intervals : tm.index >= Len(autoCommands) /\ runNext(tm)

C20_FollowUpNotCancelled ==
  [][/\ (clearHistory \/ StopCalled) => timeouts' = timeouts
     /\ BagCardinality(timeouts') < BagCardinality(timeouts) =>
          \E t \in BagToSet(timeouts) :
            /\ followUp(t) /\ now >= t.due
            /\ Len(history') = Len(history) + 1
            /\ history'[Len(history')].content = InterceptItem.content
            /\ Count(calls', {"exfil"}) = Count(calls, {"exfil"}) + 1
     /\ \A c \in BagToSet(calls), resp \in TextReplies :
          (simulateExfiltratedData(resp).st = "ok" /\ followUpReply(c, resp)) =>
             /\ Len(history') = Len(history) + 2
             /\ SubSeq(history', 1, Len(history)) = history
             /\ SubSeq(history'[Len(history) + 1].content, 1, 15) = "RECOVERY_DATA: "
             /\ history'[Len(history) + 2].content
                  = "[SYSTEM] Information exfiltrated back via silent SMS."]_vars

\* C20 witness: the session was reset (which also stopped the run) while a
\* follow-up was armed; the follow-up has fired and completed all the same.
C20_Witness ==
  /\ ~isRunning /\ timeouts = EmptyBag
  /\ Len(history) = 4
  /\ history[1].content = HaltedItem.content
  /\ history[2].content = InterceptItem.content
  /\ SubSeq(history[3].content, 1, 15) = "RECOVERY_DATA: "
  /\ history[4].content = "[SYSTEM] Information exfiltrated back via silent SMS."
  /\ history[2].timestamp >= FollowUpDelay

\* C21: when the generation of a command fails (the oracle errs or its
\* response is not a StkCommand), handleExecuteCommand catches the failure:
\* the current StkCommand, AnalysisResult and DecodedPdu stay as they were,
\* no follow-up event is scheduled, and exactly one failure line is logged.
C21_ExecFailureContained ==
  [][\A c \in BagToSet(calls), resp \in CmdReplies :
       (~ExecSucceeds(resp) /\ handleExecuteCommandReply(c, resp)) =>
          /\ UNCHANGED <<stkCommand, currentAnalysis, decodedPdu>>
          /\ timeouts' = timeouts
          /\ Len(history') = Len(history) + 1
          /\ SubSeq(history', 1, Len(history)) = history
          /\ history'[Len(history')].content
               = "Command generation failed for " \o c.cmdType \o "."
          /\ history'[Len(history')].type = "SYS_LOG"]_vars

\* C22: a failure of the follow-up's simulateExfiltratedData call is
\* contained like every other failure: the call is settled, a line is
\* logged for it, and nothing else of the session changes.
C22_FollowUpFailureLogged ==
  [][\A c \in BagToSet(calls), resp \in TextReplies :
       (simulateExfiltratedData(resp).st = "err" /\ followUpReply(c, resp)) =>
          /\ calls' = Settle(c)
          /\ Len(history') = Len(history) + 1
          /\ SubSeq(history', 1, Len(history)) = history
          /\ UNCHANGED <<formVars, resultVars, timerVars, isRunning, mounted>>]_vars

\* C23: AnalysisResult, DecodedPdu and StkCommand are set and cleared
\* independently: a successful handleExecuteCommand sets the StkCommand and
\* leaves the other two; an analysis (its start, its success, its failure)
\* leaves the StkCommand; dismissing the StkCommand or the AnalysisResult
\* leaves the other two results.
C23_ResultsIndependent ==
  [][/\ \A c \in BagToSet(calls), resp \in CmdReplies :
          (ExecSucceeds(resp) /\ handleExecuteCommandReply(c, resp)) =>
             /\ stkCommand' = getStkCommandInfo(resp).val
             /\ UNCHANGED <<currentAnalysis, decodedPdu>>
     /\ Count(calls', {"analysis"}) # Count(calls, {"analysis"}) => UNCHANGED stkCommand
     /\ (\E c \in BagToSet(calls) :
           \/ \E resp \in VulnReplies : handleAnalysisReply(c, "vuln", resp)
           \/ \E resp \in DecodeReplies : handleAnalysisReply(c, "dec", resp))
          => UNCHANGED stkCommand
     /\ dismissStkCommand =>
          stkCommand' = JNull /\ UNCHANGED <<currentAnalysis, decodedPdu>>
     /\ dismissAnalysis =>
          currentAnalysis' = JNull /\ UNCHANGED <<stkCommand, decodedPdu>>]_vars

\* C23 witness: a command was built while an analysis and its decode were
\* shown; the command was then dismissed and the other two are still there.
C23_Witness ==
  /\ IsObj(currentAnalysis) /\ Has(decodedPdu, "components")
  /\ stkCommand = JNull
  /\ calls = EmptyBag
  /\ \E i \in 1..Len(history) :
       /\ SubSeq(history[i].content, 1, 18) = "STK payload ready:"
       /\ \E j \in 1..(i - 1) : SubSeq(history[j].content, 1, 9) = "[DECODED]"

\* C24: stop() applied to a scheduler that is not running (a second stop()
\* in a row, or one with no run ever started) changes nothing of the
\* session: running flag, timer handle, timers and activity log stay as they
\* are, so stop() twice leaves what stop() once leaves.
C24_StopTwiceIsStopOnce ==
  [][(~isRunning /\ stop) => UNCHANGED <<isRunning, intervalRef, intervals, history>>]_vars

\* C25: the teardown of the session cancels the repeating timer: whatever
\* starts and stops came before, the teardown leaves no timer armed, and
\* from then on no tick fires and no step is triggered.
C25_TeardownCancelsTimer ==
  /\ [](~mounted => intervals = {})
  /\ [][/\ unmount => intervals' = {}
        /\ ~mounted =>
             /\ \A tm \in intervals : ~runNext(tm)
             /\ AutoCalls(calls') <= AutoCalls(calls)
             /\ ~mounted']_vars

\* C26: the ids of the entries of the activity log are pairwise distinct.
C26_IdsDistinct ==
  \A i, j \in 1..Len(history) : i # j => history[i].id # history[j].id

\* C27: a successful import merges the returned params into the builder
\* params field by field (a field the oracle's params do not carry keeps its
\* value), sets the environment type to the returned stkType, and the import
\* buffer is cleared when the import settles, whether it succeeded or failed.
C27_ImportMergesFields ==
  [][\A c \in BagToSet(calls), resp \in ImportReplies :
       handleImportPduReply(c, resp) =>
         LET s == importStkParamsFromPdu(resp)
         IN /\ importPdu' = ""
            /\ IF s.st = "ok" /\ IsObj(s.val)
               THEN /\ \A f \in ParamFields :
                         builderParams'[f] =
                           IF Has(s.val, "params") /\ f \in s.val.params.keys
                           THEN s.val.params[f] ELSE builderParams[f]
                    /\ stkType' = IF Has(s.val, "stkType") THEN s.val.stkType
                                  ELSE JUndefined
                    /\ history'[Len(history')].content = ImportDoneItem.content
               ELSE /\ UNCHANGED <<builderParams, stkType>>
                    /\ history'[Len(history')].content = ImportFailedItem.content]_vars

\* C27 witness: two imports have succeeded; the second carried only a
\* command type, and the display text of the first is still in the form.
C27_Witness ==
  /\ builderParams.commandType = "SEND SMS"
  /\ builderParams.displayText = "Hello"
  /\ stkType = "USAT"
  /\ importPdu = "" /\ calls = EmptyBag
  /\ history # <<>> /\ history[Len(history)].content = ImportDoneItem.content

\* C28: a request in flight when the session is reset does not write into
\* the reset session when it settles: the log (empty since the reset, as
\* every request logs a line when it is issued) stays empty and
\* AnalysisResult, DecodedPdu and StkCommand stay absent.
C28_ResetDropsInFlight ==
  [][(/\ history = <<>> /\ calls # EmptyBag
      /\ currentAnalysis = JNull /\ decodedPdu = JNull /\ stkCommand = JNull
      /\ BagCardinality(calls') < BagCardinality(calls)) =>
        /\ history' = <<>>
        /\ currentAnalysis' = JNull /\ decodedPdu' = JNull /\ stkCommand' = JNull]_vars

\* C29: at most one repeating timer is armed at any time and its handle is
\* the one intervalRef holds, also when start is invoked twice with no stop
\* in between; so once the scheduler is stopped or reset no timer is armed.
C29_SingleTimerHeld ==
  /\ Cardinality(intervals) <= 1
  /\ \A tm \in intervals : tm.handle = intervalRef
  /\ ~isRunning => intervals = {}

\* C30: between handler runs the timer handle is set, with its timer armed,
\* exactly when the running flag is true.
C30_HandleIffRunning ==
  /\ isRunning <=> intervalRef # 0
  /\ intervalRef # 0 => \E tm \in intervals : tm.handle = intervalRef
  /\ intervalRef = 0 => intervals = {}

\* C30 witness: a run was reset while active (the halt notice opens the
\* log) and a new run was started: flag and handle are set again.
C30_Witness ==
  /\ isRunning /\ intervalRef = 2
  /\ Len(history) >= 4
  /\ history[1].content = HaltedItem.content
  /\ history[2].content = StartItems[1].content

\* C31: the environment type of the session is always one of SAT_BROWSER,
\* PROACTIVE_SIM and WIB, whatever presets were applied, whatever the
\* operator selected and whatever the oracle returned to an import.
C31_StkTypeInEnum == stkType \in StkTypes

====
